---- MODULE Spec2Model ----
(***************************************************************************)
(* Model of cvat-core's annotation actions module (src/unnamed/part_000):  *)
(* the registry of single-frame actions (registeredActions, listActions,   *)
(* registerAction) and the chain executor (runActions, which delegates to  *)
(* runSingleFrameChain).                                                   *)
(*                                                                         *)
(* Specifications:                                                         *)
(*   RegSpec    the registry API, called in any order by its clients;      *)
(*   Spec       one invocation of runActions, every await of               *)
(*              runSingleFrameChain being one step;                        *)
(*   TimedSpec  the same with the timer of the progress throttle;          *)
(*   ParamSpec  one invocation on a plug-in with declared parameters;      *)
(*   SharedSpec one invocation while other clients use the store.          *)
(***************************************************************************)
EXTENDS Integers, Sequences, FiniteSets, TLC

VARIABLES
    heap,           \* the arrays of the JS heap: reference -> array of actions
    allocated,      \* number of arrays allocated besides registeredActions
    returnedRefs,   \* references that listActions handed to its callers
    nCalls,         \* number of registry API calls and caller mutations so far
    lastCall,       \* the last registry API call: its argument and its outcome
    regLog,         \* history: the actions registered successfully, in call order
    \* ---- one invocation of runActions ----
    pc,             \* the statement runSingleFrameChain is at
    chain,          \* actionsChain
    actionParameters,       \* actionParameters: per chain position, name -> string
    frameFrom,      \* frameFrom
    frameTo,        \* frameTo
    event,          \* the audit event: "none", "open", "closed"
    store,          \* the annotation store of the session: shapes, tracks, tags
    actionsHistory, \* the session's undo/redo history: "kept" or "cleared"
    exportedCollection,     \* const exportedCollection
    handledCollection,      \* handledCollection.shapes
    modifiedCollectionIDs,  \* modifiedCollectionIDs.shapes
    frame,          \* the loop variable
    frameCollectionIDs,     \* frameCollectionIDs.shapes of the current frame
    frameCollection,        \* frameCollection.shapes of the current frame
    ai,             \* position in the chain of the action to run next
    initState,      \* per chain position: init "notCalled", "inFlight", "done", "failed"
    destroyState,   \* per chain position: destroy, likewise
    completion,     \* how the try block ended: none, normal, return or throw
    result,         \* the promise runActions returned: pending, resolved, rejected
    \* ---- history of the invocation ----
    progressLog,    \* the calls of wrappedOnProgress: <<message, percentage>>
    handedLog,      \* per processed frame, the collection handed to the chain
    carried,        \* the shapes the carry-over pass appended
    runLog,         \* the calls of run: frame, chain position, input
    cancelledAt,    \* the checkpoint at which cancelled() returned true, or "none"
    clearCalls,     \* calls of instance.annotations.clear()
    importCalls,    \* calls of instance.annotations.import()
    deletedFrames,  \* the frames the frame-data provider flagged as deleted
    destroyCalls,   \* per chain position, the calls of destroy
    initCalls,      \* per chain position, the calls of init
    initArgs,       \* per chain position, the parameters passed to init
    matchedLog,     \* the clientIDs of the shapes the filter matched on a processed frame
    checkLog,       \* the checkpoints at which cancelled() was called, in order
    \* ---- the caller's side of the invocation ----
    cancelFlag,     \* "no", or the stage of the run at which the cancel request arrived
    throttleOpen,   \* wrappedOnProgress: the throttling timer is running
    throttlePending,\* wrappedOnProgress: the arguments kept for the trailing call
    delivered,      \* the calls of onProgress: <<message, percentage>>
    otherOps        \* the store operations of other clients of the session: what, and when

runVars == <<pc, chain, actionParameters, frameFrom, frameTo, event, store, actionsHistory,
             exportedCollection, handledCollection, modifiedCollectionIDs, frame,
             frameCollectionIDs, frameCollection, ai, initState, destroyState,
             completion, result, progressLog, handedLog, carried, runLog,
             cancelledAt, clearCalls, importCalls, deletedFrames, destroyCalls,
             initCalls, actionParameters, initArgs, matchedLog, checkLog, cancelFlag, throttleOpen,
             throttlePending, delivered, otherOps>>

regVars == <<heap, allocated, returnedRefs, nCalls, lastCall, regLog>>

(***************************************************************************)
(* Bounds of the registry scenario.                                        *)
(***************************************************************************)
MaxCalls == 5
MaxLists == 2

(***************************************************************************)
(* Actions as registerAction sees them.  cls is the class of the object:   *)
(*   "Object"                 not an instance of BaseSingleFrameAction     *)
(*   "BaseSingleFrameAction"  a bare base-class instance, every member of  *)
(*                            which throws Error('Method not implemented') *)
(*   "NameOnly"               a subclass that overrides the name accessor  *)
(*                            only (init, run, destroy are the stubs)      *)
(*   "Plugin"                 a subclass that overrides every member       *)
(*   "RemoveFilteredShapes"   the built-in action                          *)
(***************************************************************************)
NoName == "<none>"

ActionNames == {"Remove filtered shapes", "remove filtered shapes", "Blur"}

RemoveFilteredShapes ==
    [cls |-> "RemoveFilteredShapes", name |-> "Remove filtered shapes"]

BaseSingleFrameAction == [cls |-> "BaseSingleFrameAction", name |-> NoName]

Candidates ==
    {[cls |-> c, name |-> n] : c \in {"Object", "NameOnly", "Plugin"}, n \in ActionNames}
        \cup {BaseSingleFrameAction}

\* action instanceof BaseSingleFrameAction
InstanceOfBase(action) == action.cls # "Object"

\* get name(): the base class accessor throws, an override returns the name
NameThrows(action) == action.cls = "BaseSingleFrameAction"

\* Array.prototype.map / includes / reverse on sequences
MapNames(arr) == [i \in 1..Len(arr) |-> arr[i].name]

Includes(arr, x) == \E i \in 1..Len(arr) : arr[i] = x

Reverse(arr) == [i \in 1..Len(arr) |-> arr[Len(arr) + 1 - i]]

\* const registeredActions: the array the module owns
RegistryRef == 0

registeredActions == heap[RegistryRef]

Refs == 0..(MaxLists + 1)

(***************************************************************************)
(* Module load: registeredActions = [] and then                           *)
(* registerAction(new RemoveFilteredShapes()).                             *)
(***************************************************************************)
RegInit ==
    /\ heap = [r \in Refs |-> IF r = RegistryRef THEN <<RemoveFilteredShapes>> ELSE <<>>]
    /\ allocated = 0
    /\ returnedRefs = {}
    /\ nCalls = 0
    /\ lastCall = [op |-> "load", arg |-> RemoveFilteredShapes, result |-> "ok", ref |-> RegistryRef]
    /\ regLog = <<RemoveFilteredShapes>>

\* listActions returning the registry array itself instead of a copy
listActionsAliased ==
    /\ nCalls < MaxCalls
    /\ nCalls' = nCalls + 1
    /\ returnedRefs' = returnedRefs \cup {RegistryRef}
    /\ lastCall' = [op |-> "listActions", arg |-> RemoveFilteredShapes,
                    result |-> "ok", ref |-> RegistryRef]
    /\ UNCHANGED <<heap, allocated, regLog>>
    /\ UNCHANGED runVars

\* export async function listActions(): return [...registeredActions]
listActions ==
    /\ nCalls < MaxCalls
    /\ allocated < MaxLists
    /\ nCalls' = nCalls + 1
    /\ allocated' = allocated + 1
    /\ heap' = [heap EXCEPT ![allocated + 1] = registeredActions]
    /\ returnedRefs' = returnedRefs \cup {allocated + 1}
    /\ lastCall' = [op |-> "listActions", arg |-> RemoveFilteredShapes,
                    result |-> "ok", ref |-> allocated + 1]
    /\ UNCHANGED regLog
    /\ UNCHANGED runVars

\* registerAction without the instanceof check
RegisterOutcomeNoInstanceCheck(action) ==
    IF NameThrows(action) THEN "Error"
    ELSE IF Includes(MapNames(registeredActions), action.name) THEN "ArgumentError"
    ELSE "ok"

\* registerAction without the check of the name against the registered ones
RegisterOutcomeNoNameCheck(action) ==
    IF ~InstanceOfBase(action) THEN "ArgumentError"
    ELSE IF NameThrows(action) THEN "Error"
    ELSE "ok"

\* The outcome of registerAction(action): the error thrown, or "ok"
RegisterOutcome(action) ==
    IF ~InstanceOfBase(action) THEN "ArgumentError"
    ELSE IF NameThrows(action) THEN "Error"
    ELSE IF Includes(MapNames(registeredActions), action.name) THEN "ArgumentError"
    ELSE "ok"

\* registerAction putting the new action at the head of the registry
registerActionUnshift(action) ==
    /\ nCalls < MaxCalls
    /\ nCalls' = nCalls + 1
    /\ lastCall' = [op |-> "registerAction", arg |-> action,
                    result |-> RegisterOutcome(action), ref |-> RegistryRef]
    /\ heap' = IF RegisterOutcome(action) = "ok"
               THEN [heap EXCEPT ![RegistryRef] = <<action>> \o @]
               ELSE heap
    /\ regLog' = IF RegisterOutcome(action) = "ok" THEN Append(regLog, action) ELSE regLog
    /\ UNCHANGED <<allocated, returnedRefs>>
    /\ UNCHANGED runVars

\* registerAction pushing the action before it checks it
registerActionPushFirst(action) ==
    /\ nCalls < MaxCalls
    /\ nCalls' = nCalls + 1
    /\ lastCall' = [op |-> "registerAction", arg |-> action,
                    result |-> RegisterOutcome(action), ref |-> RegistryRef]
    /\ heap' = [heap EXCEPT ![RegistryRef] = Append(@, action)]
    /\ regLog' = IF RegisterOutcome(action) = "ok" THEN Append(regLog, action) ELSE regLog
    /\ UNCHANGED <<allocated, returnedRefs>>
    /\ UNCHANGED runVars

\* export async function registerAction(action)
registerAction(action) ==
    /\ nCalls < MaxCalls
    /\ nCalls' = nCalls + 1
    /\ lastCall' = [op |-> "registerAction", arg |-> action,
                    result |-> RegisterOutcome(action), ref |-> RegistryRef]
    /\ heap' = IF RegisterOutcome(action) = "ok"
               THEN [heap EXCEPT ![RegistryRef] = Append(@, action)]
               ELSE heap
    /\ regLog' = IF RegisterOutcome(action) = "ok" THEN Append(regLog, action) ELSE regLog
    /\ UNCHANGED <<allocated, returnedRefs>>
    /\ UNCHANGED runVars

(***************************************************************************)
(* What a caller can do with an array it got from listActions: add,        *)
(* remove and reorder entries.                                             *)
(***************************************************************************)
\* the entry a caller adds to its own copy of the list
Intruder == [cls |-> "Plugin", name |-> "Remove filtered shapes"]

CallerPush(r) ==
    /\ nCalls < MaxCalls
    /\ r \in returnedRefs
    /\ Len(heap[r]) <= Len(registeredActions)
    /\ nCalls' = nCalls + 1
    /\ heap' = [heap EXCEPT ![r] = Append(@, Intruder)]
    /\ lastCall' = [op |-> "callerMutation", arg |-> RemoveFilteredShapes,
                    result |-> "ok", ref |-> r]
    /\ UNCHANGED <<allocated, returnedRefs, regLog>>
    /\ UNCHANGED runVars

CallerPop(r) ==
    /\ nCalls < MaxCalls
    /\ r \in returnedRefs
    /\ Len(heap[r]) > 0
    /\ nCalls' = nCalls + 1
    /\ heap' = [heap EXCEPT ![r] = SubSeq(@, 1, Len(@) - 1)]
    /\ lastCall' = [op |-> "callerMutation", arg |-> RemoveFilteredShapes,
                    result |-> "ok", ref |-> r]
    /\ UNCHANGED <<allocated, returnedRefs, regLog>>
    /\ UNCHANGED runVars

CallerReverse(r) ==
    /\ nCalls < MaxCalls
    /\ r \in returnedRefs
    /\ Len(heap[r]) > 1
    /\ nCalls' = nCalls + 1
    /\ heap' = [heap EXCEPT ![r] = Reverse(@)]
    /\ lastCall' = [op |-> "callerMutation", arg |-> RemoveFilteredShapes,
                    result |-> "ok", ref |-> r]
    /\ UNCHANGED <<allocated, returnedRefs, regLog>>
    /\ UNCHANGED runVars

RegNext ==
    \/ listActions
    \/ \E action \in Candidates : registerAction(action)
    \/ \E r \in Refs : CallerPush(r)
    \/ \E r \in Refs : CallerPop(r)
    \/ \E r \in Refs : CallerReverse(r)

(***************************************************************************)
(* runActions / runSingleFrameChain.                                       *)
(***************************************************************************)
\* Bounds of the run scenario: frames are 0..MaxFrame, chains hold at most
\* MaxChain actions.
MaxFrame == 2
MaxChain == 2
MaxOther == 1

Frames == 0..MaxFrame

\* Strings are sequences of characters of at most MaxLen characters
MaxLen == 2

Chars == {"5", " ", "a"}

Strings == UNION {[1..n -> Chars] : n \in 0..MaxLen}

\* the declared parameters of a plug-in: a numeric one with the given default
\* value and an enumerated one
PluginParameters(defaultValue) ==
    [radius |-> [type |-> "number", defaultValue |-> defaultValue],
     mode   |-> [type |-> "select", defaultValue |-> <<"a">>]]

PluginWith(defaultValue) ==
    [cls |-> "Plugin", name |-> "Blur", parameters |-> PluginParameters(defaultValue)]

\* An external plug-in: its run moves every shape it gets and adds a shape
Plugin == PluginWith(<<"5">>)

ChainActions == {RemoveFilteredShapes, BaseSingleFrameAction, Plugin}

Chains == UNION {[1..n -> ChainActions] : n \in 0..MaxChain}

\* The annotations of the session before the run: three shapes (one of them
\* not saved yet, so without a server id), a track and a tag.
InitialStore ==
    [shapes |-> << [clientID |-> 1, id |-> 101, frame |-> 0, points |-> 0],
                   [clientID |-> 2, id |-> 102, frame |-> 1, points |-> 0],
                   [clientID |-> 3, frame |-> 1, points |-> 0] >>,
     tracks |-> << [clientID |-> 4, id |-> 104, frame |-> 0] >>,
     tags   |-> << [clientID |-> 5, id |-> 105, frame |-> 1] >>]

EmptyStore == [shapes |-> <<>>, tracks |-> <<>>, tags |-> <<>>]

NoError == [src |-> "none", idx |-> 0]

Err(src, idx) == [src |-> src, idx |-> idx]

\* lodash omit(object, key)
omit(obj, key) == [k \in DOMAIN obj \ {key} |-> obj[k]]

\* Math.ceil(a / b) for a >= 0, b > 0
CeilDiv(a, b) == (a + b - 1) \div b

\* getCollection(instance).export()
Export == store

\* the shapes of a collection that carry a clientID
Identified(shapes) == SelectSeq(shapes, LAMBDA sh : "clientID" \in DOMAIN sh)

\* getAnnotations(instance, frame, false, filters, null): the object states
\* visible on the frame that satisfy the filters; matched is the set of
\* clientIDs of the shapes that satisfy them.
\* the object states of the objects of one type
ObjectStates(objects, type) ==
    [i \in 1..Len(objects) |-> [objectType |-> type, clientID |-> objects[i].clientID]]

getAnnotations(f, matched) ==
    ObjectStates(SelectSeq(Identified(store.shapes),
                           LAMBDA sh : sh.frame = f /\ sh.clientID \in matched), "shape")
    \o ObjectStates(SelectSeq(store.tracks, LAMBDA tr : tr.frame <= f), "track")
    \o ObjectStates(SelectSeq(store.tags, LAMBDA tg : tg.frame = f), "tag")

AllShapeIDs == {Identified(store.shapes)[i].clientID : i \in 1..Len(Identified(store.shapes))}

ShapeIDsOn(f) ==
    LET on == SelectSeq(Identified(store.shapes), LAMBDA sh : sh.frame = f)
    IN  {on[i].clientID : i \in 1..Len(on)}

\* states.reduce(...): the clientIDs of the states of type SHAPE
FrameCollectionIDs(states) ==
    LET shapeStates == SelectSeq(states, LAMBDA st : st.objectType = "shape")
    IN  [i \in 1..Len(shapeStates) |-> shapeStates[i].clientID]

\* exportedCollection.shapes.filter(shape => ids.includes(shape.clientID))
PickFrameCollection(exported, ids) ==
    SelectSeq(exported.shapes, LAMBDA sh : Includes(ids, sh.clientID))

\* Number.isInteger(shape.clientID)
IsIntegerClientID(sh) == "clientID" \in DOMAIN sh /\ sh.clientID \in Int

\* the carry-over pass appending every shape of the snapshot
CarryOverAll(exported, modified) == exported.shapes

\* a carry-over pass that takes only the shapes outside the frame range
CarryOverOutsideRange(exported, modified) ==
    SelectSeq(exported.shapes, LAMBDA sh : sh.frame \notin frameFrom..frameTo)

\* the carry-over pass: the shapes of the snapshot whose clientID was not handled
CarryOver(exported, modified) ==
    SelectSeq(exported.shapes,
              LAMBDA sh : IsIntegerClientID(sh) /\ ~Includes(modified, sh.clientID))

\* the handled shapes pushed as they are
KeepIDs(shapes) == shapes

\* the handled shapes stripped of their clientID as well
StripIDsAndClientIDs(shapes) ==
    [i \in 1..Len(shapes) |-> omit(omit(shapes[i], "id"), "clientID")]

\* frameCollection.shapes.map(shape => omit(shape, 'id'))
StripIDs(shapes) == [i \in 1..Len(shapes) |-> omit(shapes[i], "id")]

\* every action returning the collection it was given
RunOutputIdentity(action, input, frameNumber) == input

\* action.run(instance, {collection, frameData}): the returned collection
RunOutput(action, input, frameNumber) ==
    IF action.cls = "RemoveFilteredShapes" THEN <<>>
    ELSE Append([i \in 1..Len(input) |-> [input[i] EXCEPT !.points = @ + 1]],
                [frame |-> frameNumber, points |-> 0])

\* JS values: a number, NaN, a string
Num(n) == [num |-> n]

NaN == [nan |-> TRUE]

Str(chars) == [str |-> chars]

\* StrWhiteSpace stripped from both ends
RECURSIVE Trim(_)
Trim(chars) ==
    IF chars = <<>> THEN <<>>
    ELSE IF Head(chars) = " " THEN Trim(Tail(chars))
    ELSE IF chars[Len(chars)] = " " THEN Trim(SubSeq(chars, 1, Len(chars) - 1))
    ELSE chars

\* the value of a sequence of decimal digits
RECURSIVE Decimal(_)
Decimal(digits) ==
    IF digits = <<>> THEN 0
    ELSE Decimal(SubSeq(digits, 1, Len(digits) - 1)) * 10
            + (CASE digits[Len(digits)] = "5" -> 5)

\* the empty string read as NaN
ToNumberEmptyIsNaN(chars) ==
    IF Trim(chars) # <<>> /\ \A i \in 1..Len(Trim(chars)) : Trim(chars)[i] = "5"
    THEN Num(Decimal(Trim(chars)))
    ELSE NaN

\* unary + applied to a string (ToNumber): white space is stripped, the empty
\* string is 0, a decimal literal is its value, anything else is NaN
ToNumber(chars) ==
    IF Trim(chars) = <<>> THEN Num(0)
    ELSE IF \A i \in 1..Len(Trim(chars)) : Trim(chars)[i] = "5"
    THEN Num(Decimal(Trim(chars)))
    ELSE NaN

Null == [null |-> TRUE]

\* action.parameters
DeclaredParameters(action) ==
    IF action.cls = "RemoveFilteredShapes" THEN Null ELSE action.parameters

\* Object.hasOwn(setupValues, name) ? setupValues[name] : defaultValue
SetupOrDefault(setupValues, name, defaultValue) ==
    IF name \in DOMAIN setupValues THEN setupValues[name] ELSE defaultValue

\* the parameters passed to init: {} for an action without declared
\* parameters, otherwise one entry per declared name
ResolveParameters(action, setupValues) ==
    IF DeclaredParameters(action) = Null THEN [name \in {} |-> NaN]
    ELSE [name \in DOMAIN DeclaredParameters(action) |->
            IF DeclaredParameters(action)[name].type = "number"
            THEN ToNumber(SetupOrDefault(setupValues, name,
                                         DeclaredParameters(action)[name].defaultValue))
            ELSE Str(SetupOrDefault(setupValues, name,
                                    DeclaredParameters(action)[name].defaultValue))]

\* the position of the first action with declared parameters for which
\* actionParameters has no entry (Object.hasOwn(undefined, name) throws), or
\* Len(actions) + 1
FirstWithoutSetup(actions, parameters) ==
    LET bad == {i \in 1..Len(actions) :
                    DeclaredParameters(actions[i]) # Null /\ i > Len(parameters)}
    IN  IF bad = {} THEN Len(actions) + 1
        ELSE CHOOSE i \in bad : \A j \in bad : i <= j

\* the caller's values: none, the numeric parameter, both parameters, and a
\* name that is not declared
SetupValues ==
    {[name \in names |-> v] :
        names \in {{}, {"radius"}, {"radius", "mode"}, {"extra"}}, v \in Strings}

\* the declared default values of the numeric parameter
DefaultValues == {<<"5">>, <<"a">>, <<>>}

\* a caller that passes {} at every position
NoSetup(actions) == [i \in 1..Len(actions) |-> [name \in {} |-> <<>>]]

\* whether init, run or destroy of the action can raise
CanRaise(action) == action.cls # "RemoveFilteredShapes"

\* Math.ceil(+(((frame - frameFrom) / totalFrames) * 100))
Progress(f, from, to) == CeilDiv((f - from) * 100, to - from + 1)

AllOf(states, v) == \A i \in 1..Len(states) : states[i] = v

Settle(c) ==
    IF c.type = "throw" THEN [state |-> "rejected", error |-> c.error]
    ELSE [state |-> "resolved", error |-> NoError]

Pending == [state |-> "pending", error |-> NoError]

RunInit ==
    /\ pc = "idle"
    /\ chain = <<>>
    /\ actionParameters = <<>>
    /\ frameFrom = 0
    /\ frameTo = 0
    /\ event = "none"
    /\ store = InitialStore
    /\ actionsHistory = "kept"
    /\ exportedCollection = EmptyStore
    /\ handledCollection = <<>>
    /\ modifiedCollectionIDs = <<>>
    /\ frame = 0
    /\ frameCollectionIDs = <<>>
    /\ frameCollection = <<>>
    /\ ai = 1
    /\ initState = <<>>
    /\ destroyState = <<>>
    /\ completion = [type |-> "none", error |-> NoError]
    /\ result = Pending
    /\ progressLog = <<>>
    /\ handedLog = <<>>
    /\ carried = <<>>
    /\ runLog = <<>>
    /\ cancelledAt = "none"
    /\ clearCalls = 0
    /\ importCalls = 0
    /\ deletedFrames = {}
    /\ destroyCalls = <<>>
    /\ initCalls = <<>>
    /\ initArgs = <<>>
    /\ matchedLog = {}
    /\ checkLog = <<>>
    /\ cancelFlag = "no"
    /\ throttleOpen = FALSE
    /\ throttlePending = <<>>
    /\ delivered = <<>>
    /\ otherOps = <<>>

Init == RegInit /\ RunInit

\* the stage of the run a statement belongs to
Stage(at) ==
    CASE at \in {"log", "initMessage"} -> "beforeInit"
      [] at \in {"startInit", "awaitInit"} -> "init"
      [] at \in {"frameGet", "getAnnotations", "run"} -> "iterating"
      [] at = "commitMessage" -> "beforeCommit"
      [] at = "clear" -> "carryOver"
      [] at \in {"actionsClear", "import"} -> "committing"
      [] OTHER -> "finalizing"

\* cancelled(): the caller's predicate is true once a cancel request arrived
Cancelled == cancelFlag # "no"

\* wrappedOnProgress(message, progress): throttle(onProgress, 100, {leading:
\* true, trailing: true}) calls onProgress at once when no timer is running,
\* and keeps the arguments of the latest call for the trailing edge otherwise
WrappedOnProgress(message, progress) ==
    IF throttleOpen
    THEN /\ throttlePending' = << <<message, progress>> >>
         /\ UNCHANGED <<throttleOpen, delivered>>
    ELSE /\ delivered' = Append(delivered, <<message, progress>>)
         /\ throttleOpen' = TRUE
         /\ UNCHANGED throttlePending

\* showMessageWithPause(message, progress, duration): the call, then a pause
\* of 500 ms or more, during which the 100 ms timer delivers the call if it was
\* kept for the trailing edge and then runs out
ShowMessageWithPause(message, progress) ==
    /\ delivered' = Append(delivered, <<message, progress>>)
    /\ throttleOpen' = FALSE
    /\ throttlePending' = <<>>

throttleVars == <<throttleOpen, throttlePending, delivered>>

\* leaving the try block: the finally block is next
Leave(type, error) ==
    /\ completion' = [type |-> type, error |-> error]
    /\ pc' = "finally"

\* runActions(instance, actionsChain, ..., frameFrom, frameTo, ...): the call,
\* up to the await of instance.logger.log; the chain's names are read first
runActions(c, parameters, from, to) ==
    /\ pc = "idle"
    /\ chain' = c
    /\ actionParameters' = parameters
    /\ frameFrom' = from
    /\ frameTo' = to
    /\ initState' = [i \in 1..Len(c) |-> "notCalled"]
    /\ destroyState' = [i \in 1..Len(c) |-> "notCalled"]
    /\ initCalls' = [i \in 1..Len(c) |-> 0]
    /\ destroyCalls' = [i \in 1..Len(c) |-> 0]
    /\ IF \E i \in 1..Len(c) : NameThrows(c[i])
       THEN /\ pc' = "settled"
            /\ result' = [state |-> "rejected",
                          error |-> Err("name", CHOOSE i \in 1..Len(c) :
                                /\ NameThrows(c[i])
                                /\ \A j \in 1..(i - 1) : ~NameThrows(c[j]))]
       ELSE /\ pc' = "log"
            /\ UNCHANGED result
    /\ UNCHANGED <<event, store, actionsHistory, exportedCollection, handledCollection,
                   modifiedCollectionIDs, frame, frameCollectionIDs, frameCollection, ai,
                   completion, progressLog, handedLog, carried, runLog, cancelledAt,
                   clearCalls, importCalls, deletedFrames>>
    /\ UNCHANGED <<initArgs, matchedLog, checkLog, cancelFlag, throttleOpen, throttlePending, delivered>>
    /\ UNCHANGED <<otherOps, regVars>>

\* await instance.logger.log(LogType.annotationsAction, {...}, true)
LoggerLog(ok) ==
    /\ pc = "log"
    /\ IF ok
       THEN /\ event' = "open"
            /\ pc' = "initMessage"
            /\ UNCHANGED result
       ELSE /\ result' = [state |-> "rejected", error |-> Err("logger.log", 0)]
            /\ pc' = "settled"
            /\ UNCHANGED event
    /\ UNCHANGED <<chain, frameFrom, frameTo, store, actionsHistory, exportedCollection,
                   handledCollection, modifiedCollectionIDs, frame, frameCollectionIDs,
                   frameCollection, ai, initState, destroyState, completion, progressLog,
                   handedLog, carried, runLog, cancelledAt, clearCalls, importCalls,
                   deletedFrames, destroyCalls, initCalls>>
    /\ UNCHANGED <<actionParameters, initArgs, matchedLog, checkLog, cancelFlag, throttleOpen, throttlePending, delivered>>
    /\ UNCHANGED <<otherOps, regVars>>

\* await showMessageWithPause('Actions initialization', 0, 500); if (cancelled()) return
InitMessage(isCancelled) ==
    /\ pc = "initMessage"
    /\ progressLog' = Append(progressLog, <<"Actions initialization", 0>>)
    /\ IF isCancelled
       THEN /\ cancelledAt' = "init"
            /\ Leave("return", NoError)
       ELSE /\ pc' = "startInit"
            /\ UNCHANGED <<cancelledAt, completion>>
    /\ UNCHANGED <<chain, frameFrom, frameTo, event, store, actionsHistory,
                   exportedCollection, handledCollection, modifiedCollectionIDs, frame,
                   frameCollectionIDs, frameCollection, ai, initState, destroyState,
                   result, handedLog, carried, runLog, clearCalls, importCalls,
                   deletedFrames, destroyCalls, initCalls>>
    /\ isCancelled = Cancelled
    /\ checkLog' = Append(checkLog, "init")
    /\ ShowMessageWithPause("Actions initialization", 0)
    /\ UNCHANGED <<actionParameters, initArgs, matchedLog, cancelFlag>>
    /\ UNCHANGED <<otherOps, regVars>>

\* const exportedCollection = getCollection(instance).export() and the two
\* empty accumulators; the loop starts at frameFrom
ExportAndStart ==
    /\ exportedCollection' = Export
    /\ handledCollection' = <<>>
    /\ modifiedCollectionIDs' = <<>>
    /\ frame' = frameFrom
    /\ pc' = "frameGet"

\* Promise.all(actionsChain.map(... action.init(instance, parameters))): every
\* init is called; with an empty chain the promise is resolved at once
StartInit ==
    /\ pc = "startInit"
    /\ LET stop == FirstWithoutSetup(chain, actionParameters)
       IN  /\ initState' = [i \in 1..Len(chain) |->
                                IF i < stop THEN "inFlight" ELSE "notCalled"]
           /\ initCalls' = [i \in 1..Len(chain) |->
                                IF i < stop THEN initCalls[i] + 1 ELSE initCalls[i]]
           /\ initArgs' = [i \in 1..Len(chain) |->
                                IF i < stop
                                THEN ResolveParameters(chain[i],
                                        IF i <= Len(actionParameters)
                                        THEN actionParameters[i] ELSE <<>>)
                                ELSE <<>>]
           /\ IF stop <= Len(chain)
              THEN /\ Leave("throw", Err("parameters", stop))
                   /\ UNCHANGED <<exportedCollection, handledCollection,
                                  modifiedCollectionIDs, frame>>
              ELSE IF chain = <<>>
              THEN ExportAndStart /\ UNCHANGED completion
              ELSE /\ pc' = "awaitInit"
                   /\ UNCHANGED <<completion, exportedCollection, handledCollection,
                                  modifiedCollectionIDs, frame>>
    /\ UNCHANGED <<chain, frameFrom, frameTo, event, store, actionsHistory,
                   frameCollectionIDs, frameCollection, ai, destroyState,
                   result, progressLog, handedLog, carried, runLog, cancelledAt,
                   clearCalls, importCalls, deletedFrames, destroyCalls>>
    /\ UNCHANGED <<actionParameters, matchedLog, checkLog, cancelFlag, throttleOpen, throttlePending, delivered>>
    /\ UNCHANGED <<otherOps, regVars>>

\* a promise resolved as soon as one init succeeded
AnyInitResolved(states) == \E i \in 1..Len(states) : states[i] = "done"

\* Promise.all(...) of the init calls is resolved: every init succeeded
AllInitResolved(states) == AllOf(states, "done")

\* the init of the action at position i settles; Promise.all is rejected by
\* the first init that fails and resolved by the last one that succeeds
InitSettles(i, ok) ==
    /\ i \in 1..Len(chain)
    /\ initState[i] = "inFlight"
    /\ ok \/ CanRaise(chain[i])
    /\ initState' = [initState EXCEPT ![i] = IF ok THEN "done" ELSE "failed"]
    /\ IF pc = "awaitInit" /\ ~ok
       THEN /\ Leave("throw", Err("init", i))
            /\ UNCHANGED <<exportedCollection, handledCollection, modifiedCollectionIDs, frame>>
       ELSE IF pc = "awaitInit" /\ AllInitResolved(initState')
       THEN /\ ExportAndStart
            /\ UNCHANGED completion
       ELSE UNCHANGED <<pc, completion, exportedCollection, handledCollection,
                        modifiedCollectionIDs, frame>>
    /\ UNCHANGED <<chain, frameFrom, frameTo, event, store, actionsHistory,
                   frameCollectionIDs, frameCollection, ai, destroyState, result,
                   progressLog, handedLog, carried, runLog, cancelledAt, clearCalls,
                   importCalls, deletedFrames, destroyCalls, initCalls>>
    /\ UNCHANGED <<actionParameters, initArgs, matchedLog, checkLog, cancelFlag, throttleOpen, throttlePending, delivered>>
    /\ UNCHANGED <<otherOps, regVars>>

\* a loop that advances by two frames
SkipFrame(f) == f + 2

\* frame++
NextFrame(f) == f + 1

\* the loop test and, inside the loop, await frames.get(frame): the provider
\* raises, or returns the frame's data, deleted or not
FrameGet(outcome) ==
    /\ pc = "frameGet"
    /\ IF frame > frameTo
       THEN /\ outcome = "ok"
            /\ pc' = "commitMessage"
            /\ UNCHANGED <<frame, completion, deletedFrames>>
       ELSE CASE outcome = "raise" ->
                    /\ Leave("throw", Err("frames.get", 0))
                    /\ UNCHANGED <<frame, deletedFrames>>
              [] outcome = "deleted" ->
                    /\ deletedFrames' = deletedFrames \cup {frame}
                    /\ frame' = NextFrame(frame)
                    /\ UNCHANGED <<pc, completion>>
              [] outcome = "ok" ->
                    /\ pc' = "getAnnotations"
                    /\ UNCHANGED <<frame, completion, deletedFrames>>
    /\ UNCHANGED <<chain, frameFrom, frameTo, event, store, actionsHistory,
                   exportedCollection, handledCollection, modifiedCollectionIDs,
                   frameCollectionIDs, frameCollection, ai, initState, destroyState,
                   result, progressLog, handedLog, carried, runLog, cancelledAt,
                   clearCalls, importCalls, destroyCalls, initCalls>>
    /\ UNCHANGED <<actionParameters, initArgs, matchedLog, checkLog, cancelFlag, throttleOpen, throttlePending, delivered>>
    /\ UNCHANGED <<otherOps, regVars>>

\* await getAnnotations(instance, frame, false, filters, null), then the ids
\* of its shapes and the frame collection picked from the snapshot
GetAnnotations(ok, matched) ==
    /\ pc = "getAnnotations"
    /\ IF ok
       THEN /\ matched \subseteq ShapeIDsOn(frame)
            /\ frameCollectionIDs' = FrameCollectionIDs(getAnnotations(frame, matched))
            /\ frameCollection' = PickFrameCollection(exportedCollection, frameCollectionIDs')
            /\ handedLog' = Append(handedLog, [frame |-> frame, shapes |-> frameCollection'])
            /\ ai' = 1
            /\ pc' = "run"
            /\ UNCHANGED completion
       ELSE /\ matched = {}
            /\ Leave("throw", Err("getAnnotations", 0))
            /\ UNCHANGED <<frameCollectionIDs, frameCollection, handedLog, ai>>
    /\ UNCHANGED <<chain, frameFrom, frameTo, event, store, actionsHistory,
                   exportedCollection, handledCollection, modifiedCollectionIDs, frame,
                   initState, destroyState, result, progressLog, carried, runLog,
                   cancelledAt, clearCalls, importCalls, deletedFrames, destroyCalls,
                   initCalls>>
    /\ matchedLog' = IF ok THEN matchedLog \cup matched ELSE matchedLog
    /\ UNCHANGED <<actionParameters, initArgs, checkLog, cancelFlag, throttleOpen, throttlePending, delivered>>
    /\ UNCHANGED <<otherOps, regVars>>

\* for await (const action of actionsChain): await action.run(instance, {...})
RunAction(ok) ==
    /\ pc = "run"
    /\ ai <= Len(chain)
    /\ ok \/ CanRaise(chain[ai])
    /\ runLog' = Append(runLog, [frame |-> frame, idx |-> ai, input |-> frameCollection])
    /\ IF ok
       THEN /\ frameCollection' = RunOutput(chain[ai], frameCollection, frame)
            /\ ai' = ai + 1
            /\ UNCHANGED <<pc, completion>>
       ELSE /\ Leave("throw", Err("run", ai))
            /\ UNCHANGED <<frameCollection, ai>>
    /\ UNCHANGED <<chain, frameFrom, frameTo, event, store, actionsHistory,
                   exportedCollection, handledCollection, modifiedCollectionIDs, frame,
                   frameCollectionIDs, initState, destroyState, result, progressLog,
                   handedLog, carried, cancelledAt, clearCalls, importCalls,
                   deletedFrames, destroyCalls, initCalls>>
    /\ UNCHANGED <<actionParameters, initArgs, matchedLog, checkLog, cancelFlag, throttleOpen, throttlePending, delivered>>
    /\ UNCHANGED <<otherOps, regVars>>

\* after the chain: the progress call, the cancellation checkpoint, then the
\* frame's results pushed to the accumulators and frame++
FrameDone(isCancelled) ==
    /\ pc = "run"
    /\ ai > Len(chain)
    /\ progressLog' = Append(progressLog,
            <<"Actions are running", Progress(frame, frameFrom, frameTo)>>)
    /\ IF isCancelled
       THEN /\ cancelledAt' = "frame"
            /\ Leave("return", NoError)
            /\ UNCHANGED <<handledCollection, modifiedCollectionIDs, frame>>
       ELSE /\ handledCollection' = handledCollection \o StripIDs(frameCollection)
            /\ modifiedCollectionIDs' = modifiedCollectionIDs \o frameCollectionIDs
            /\ frame' = NextFrame(frame)
            /\ pc' = "frameGet"
            /\ UNCHANGED <<cancelledAt, completion>>
    /\ UNCHANGED <<chain, frameFrom, frameTo, event, store, actionsHistory,
                   exportedCollection, frameCollectionIDs, frameCollection, ai,
                   initState, destroyState, result, handedLog, carried, runLog,
                   clearCalls, importCalls, deletedFrames, destroyCalls, initCalls>>
    /\ isCancelled = Cancelled
    /\ checkLog' = Append(checkLog, "frame")
    /\ WrappedOnProgress("Actions are running", Progress(frame, frameFrom, frameTo))
    /\ UNCHANGED <<actionParameters, initArgs, matchedLog, cancelFlag>>
    /\ UNCHANGED <<otherOps, regVars>>

\* await showMessageWithPause('Commiting handled objects', 100, 1500);
\* if (cancelled()) return; then the carry-over pass
CommitMessage(isCancelled) ==
    /\ pc = "commitMessage"
    /\ progressLog' = Append(progressLog, <<"Commiting handled objects", 100>>)
    /\ IF isCancelled
       THEN /\ cancelledAt' = "commit"
            /\ Leave("return", NoError)
            /\ UNCHANGED <<handledCollection, carried>>
       ELSE /\ carried' = CarryOver(exportedCollection, modifiedCollectionIDs)
            /\ handledCollection' = handledCollection \o carried'
            /\ pc' = "clear"
            /\ UNCHANGED <<cancelledAt, completion>>
    /\ UNCHANGED <<chain, frameFrom, frameTo, event, store, actionsHistory,
                   exportedCollection, modifiedCollectionIDs, frame, frameCollectionIDs,
                   frameCollection, ai, initState, destroyState, result, handedLog,
                   runLog, clearCalls, importCalls, deletedFrames, destroyCalls,
                   initCalls>>
    /\ isCancelled = Cancelled
    /\ checkLog' = Append(checkLog, "commit")
    /\ ShowMessageWithPause("Commiting handled objects", 100)
    /\ UNCHANGED <<actionParameters, initArgs, matchedLog, cancelFlag>>
    /\ UNCHANGED <<otherOps, regVars>>

\* await instance.annotations.clear()
AnnotationsClear(ok) ==
    /\ pc = "clear"
    /\ clearCalls' = clearCalls + 1
    /\ IF ok
       THEN /\ store' = EmptyStore
            /\ pc' = "actionsClear"
            /\ UNCHANGED completion
       ELSE /\ Leave("throw", Err("annotations.clear", 0))
            /\ UNCHANGED store
    /\ UNCHANGED <<chain, frameFrom, frameTo, event, actionsHistory, exportedCollection,
                   handledCollection, modifiedCollectionIDs, frame, frameCollectionIDs,
                   frameCollection, ai, initState, destroyState, result, progressLog,
                   handedLog, carried, runLog, cancelledAt, importCalls, deletedFrames,
                   destroyCalls, initCalls>>
    /\ UNCHANGED <<actionParameters, initArgs, matchedLog, checkLog, cancelFlag, throttleOpen, throttlePending, delivered>>
    /\ UNCHANGED <<otherOps, regVars>>

\* await instance.actions.clear()
ActionsClear(ok) ==
    /\ pc = "actionsClear"
    /\ IF ok
       THEN /\ actionsHistory' = "cleared"
            /\ pc' = "import"
            /\ UNCHANGED completion
       ELSE /\ Leave("throw", Err("actions.clear", 0))
            /\ UNCHANGED actionsHistory
    /\ UNCHANGED <<chain, frameFrom, frameTo, event, store, exportedCollection,
                   handledCollection, modifiedCollectionIDs, frame, frameCollectionIDs,
                   frameCollection, ai, initState, destroyState, result, progressLog,
                   handedLog, carried, runLog, cancelledAt, clearCalls, importCalls,
                   deletedFrames, destroyCalls, initCalls>>
    /\ UNCHANGED <<actionParameters, initArgs, matchedLog, checkLog, cancelFlag, throttleOpen, throttlePending, delivered>>
    /\ UNCHANGED <<otherOps, regVars>>

\* the handled shapes alone
CombinedShapesOnly == [shapes |-> handledCollection, tracks |-> <<>>, tags |-> <<>>]

\* the collection handed to import: {...handledCollection, tracks, tags}
Combined ==
    [shapes |-> handledCollection,
     tracks |-> exportedCollection.tracks,
     tags   |-> exportedCollection.tags]

\* await instance.annotations.import({...}); event.close()
AnnotationsImport(ok) ==
    /\ pc = "import"
    /\ importCalls' = importCalls + 1
    /\ IF ok
       THEN /\ store' = Combined
            /\ event' = "closed"
            /\ Leave("normal", NoError)
       ELSE /\ Leave("throw", Err("annotations.import", 0))
            /\ UNCHANGED <<store, event>>
    /\ UNCHANGED <<chain, frameFrom, frameTo, actionsHistory, exportedCollection,
                   handledCollection, modifiedCollectionIDs, frame, frameCollectionIDs,
                   frameCollection, ai, initState, destroyState, result, progressLog,
                   handedLog, carried, runLog, cancelledAt, clearCalls, deletedFrames,
                   destroyCalls, initCalls>>
    /\ UNCHANGED <<actionParameters, initArgs, matchedLog, checkLog, cancelFlag, throttleOpen, throttlePending, delivered>>
    /\ UNCHANGED <<otherOps, regVars>>

\* finally: wrappedOnProgress('Finalizing', 100), then
\* Promise.all(actionsChain.map((action) => action.destroy())): every destroy
\* is called; with an empty chain the run settles as the try block ended
Finally ==
    /\ pc = "finally"
    /\ progressLog' = Append(progressLog, <<"Finalizing", 100>>)
    /\ destroyState' = [i \in 1..Len(chain) |-> "inFlight"]
    /\ destroyCalls' = [i \in 1..Len(chain) |-> destroyCalls[i] + 1]
    /\ IF chain = <<>>
       THEN /\ result' = Settle(completion)
            /\ pc' = "settled"
       ELSE /\ pc' = "awaitDestroy"
            /\ UNCHANGED result
    /\ UNCHANGED <<chain, frameFrom, frameTo, event, store, actionsHistory,
                   exportedCollection, handledCollection, modifiedCollectionIDs, frame,
                   frameCollectionIDs, frameCollection, ai, initState, completion,
                   handedLog, carried, runLog, cancelledAt, clearCalls, importCalls,
                   deletedFrames, initCalls>>
    /\ WrappedOnProgress("Finalizing", 100)
    /\ UNCHANGED <<actionParameters, initArgs, matchedLog, checkLog, cancelFlag>>
    /\ UNCHANGED <<otherOps, regVars>>

\* what the await in the finally block makes of a settled destroy: the first
\* rejection rejects the run with the destroy's error, whatever the try block
\* ended with; the last success lets the run settle as the try block ended
DestroyOutcome(i, ok) ==
    IF ~ok THEN [state |-> "rejected", error |-> Err("destroy", i)]
    ELSE IF AllOf([destroyState EXCEPT ![i] = "done"], "done") THEN Settle(completion)
    ELSE Pending

\* the destroy of the action at position i settles
DestroySettles(i, ok) ==
    /\ i \in 1..Len(chain)
    /\ destroyState[i] = "inFlight"
    /\ ok \/ CanRaise(chain[i])
    /\ destroyState' = [destroyState EXCEPT ![i] = IF ok THEN "done" ELSE "failed"]
    /\ IF pc = "awaitDestroy" /\ DestroyOutcome(i, ok) # Pending
       THEN /\ result' = DestroyOutcome(i, ok)
            /\ pc' = "settled"
       ELSE UNCHANGED <<pc, result>>
    /\ UNCHANGED <<chain, frameFrom, frameTo, event, store, actionsHistory,
                   exportedCollection, handledCollection, modifiedCollectionIDs, frame,
                   frameCollectionIDs, frameCollection, ai, initState, completion,
                   progressLog, handedLog, carried, runLog, cancelledAt, clearCalls,
                   importCalls, deletedFrames, destroyCalls, initCalls>>
    /\ UNCHANGED <<actionParameters, initArgs, matchedLog, checkLog, cancelFlag, throttleOpen, throttlePending, delivered>>
    /\ UNCHANGED <<otherOps, regVars>>

\* the caller's cancel request arrives while the try block is running (a later
\* request meets no checkpoint)
RequestCancel ==
    /\ pc \notin {"idle", "finally", "awaitDestroy", "settled"}
    /\ cancelFlag = "no"
    /\ cancelFlag' = Stage(pc)
    /\ UNCHANGED <<pc, chain, frameFrom, frameTo, event, store, actionsHistory,
                   exportedCollection, handledCollection, modifiedCollectionIDs, frame,
                   frameCollectionIDs, frameCollection, ai, initState, destroyState,
                   completion, result, progressLog, handedLog, carried, runLog,
                   cancelledAt, clearCalls, importCalls, deletedFrames, destroyCalls,
                   initCalls, actionParameters, initArgs, matchedLog, checkLog, throttleOpen,
                   throttlePending, delivered>>
    /\ UNCHANGED <<otherOps, regVars>>

\* Another client of the session (another run, the editor) operates on the
\* annotation store while the run is suspended at an await: it puts a shape or
\* clears the store.  At most MaxOther such operations are followed.
OtherShape == [clientID |-> 9, frame |-> 0, points |-> 0]

OtherStoreOperation(op) ==
    /\ pc \notin {"idle", "settled"}
    /\ Len(otherOps) < MaxOther
    /\ store' = IF op = "put"
                THEN [store EXCEPT !.shapes = Append(@, OtherShape)]
                ELSE EmptyStore
    /\ otherOps' = Append(otherOps, [op |-> op, at |-> pc])
    /\ UNCHANGED <<pc, chain, frameFrom, frameTo, event, actionsHistory,
                   exportedCollection, handledCollection, modifiedCollectionIDs, frame,
                   frameCollectionIDs, frameCollection, ai, initState, destroyState,
                   completion, result, progressLog, handedLog, carried, runLog,
                   cancelledAt, clearCalls, importCalls, deletedFrames, destroyCalls,
                   initCalls, actionParameters, initArgs, matchedLog, checkLog,
                   cancelFlag, throttleOpen, throttlePending, delivered>>
    /\ UNCHANGED regVars

\* the 100 ms timer of the throttle runs out: the call kept for the trailing
\* edge is made and the timer restarted, or the timer stops
ThrottleTimer ==
    /\ throttleOpen
    /\ IF throttlePending # <<>>
       THEN /\ delivered' = Append(delivered, throttlePending[1])
            /\ throttlePending' = <<>>
            /\ UNCHANGED throttleOpen
       ELSE /\ throttleOpen' = FALSE
            /\ UNCHANGED <<throttlePending, delivered>>
    /\ UNCHANGED <<pc, chain, frameFrom, frameTo, event, store, actionsHistory,
                   exportedCollection, handledCollection, modifiedCollectionIDs, frame,
                   frameCollectionIDs, frameCollection, ai, initState, destroyState,
                   completion, result, progressLog, handedLog, carried, runLog,
                   cancelledAt, clearCalls, importCalls, deletedFrames, destroyCalls,
                   initCalls, actionParameters, initArgs, matchedLog, checkLog, cancelFlag>>
    /\ UNCHANGED <<otherOps, regVars>>

\* the steps of runSingleFrameChain after the call
RunSteps ==
    \/ \E ok \in BOOLEAN : LoggerLog(ok)
    \/ \E isCancelled \in BOOLEAN : InitMessage(isCancelled)
    \/ StartInit
    \/ \E i \in 1..MaxChain, ok \in BOOLEAN : InitSettles(i, ok)
    \/ \E outcome \in {"ok", "deleted", "raise"} : FrameGet(outcome)
    \/ \E ok \in BOOLEAN, matched \in SUBSET AllShapeIDs : GetAnnotations(ok, matched)
    \/ \E ok \in BOOLEAN : RunAction(ok)
    \/ \E isCancelled \in BOOLEAN : FrameDone(isCancelled)
    \/ \E isCancelled \in BOOLEAN : CommitMessage(isCancelled)
    \/ \E ok \in BOOLEAN : AnnotationsClear(ok)
    \/ \E ok \in BOOLEAN : ActionsClear(ok)
    \/ \E ok \in BOOLEAN : AnnotationsImport(ok)
    \/ Finally
    \/ \E i \in 1..MaxChain, ok \in BOOLEAN : DestroySettles(i, ok)
    \/ RequestCancel

Next ==
    \/ \E c \in Chains, from \in Frames, to \in Frames :
            runActions(c, NoSetup(c), from, to)
    \/ RunSteps

\* one plug-in on one frame, called with any declared default value of its
\* numeric parameter and any values of the caller, or with no entry in
\* actionParameters
ParamNext ==
    \/ \E d \in DefaultValues, setupValues \in SetupValues :
            runActions(<<PluginWith(d)>>, <<setupValues>>, 0, 0)
    \/ \E d \in DefaultValues : runActions(<<PluginWith(d)>>, <<>>, 0, 0)
    \/ RunSteps

vars == <<regVars, runVars>>

\* One invocation of runActions.  The timer of the throttle is left out: it
\* changes nothing but the throttle's own state (throttleOpen, throttlePending,
\* delivered), which no other step reads.
Spec == Init /\ [][Next]_vars

\* One invocation of runActions with the timer of the throttle running
TimedNext == Next \/ ThrottleTimer

TimedSpec == Init /\ [][TimedNext]_vars

\* One invocation of runActions on a plug-in with declared parameters
ParamSpec == Init /\ [][ParamNext]_vars

\* one short chain on frame 0, with other clients of the session operating on
\* the annotation store
SharedNext ==
    \/ \E c \in {<<>>, <<RemoveFilteredShapes>>, <<Plugin>>} :
            runActions(c, NoSetup(c), 0, 0)
    \/ RunSteps
    \/ \E op \in {"put", "clear"} : OtherStoreOperation(op)

SharedSpec == Init /\ [][SharedNext]_vars

RegSpec == Init /\ [][RegNext]_vars

(***************************************************************************)
(* Run claims (checked under Spec).                                        *)
(***************************************************************************)
\* on how many processed frames the shape was handed to the chain
HandedCount(sh) == Cardinality({n \in 1..Len(handedLog) : Includes(handedLog[n].shapes, sh)})

\* how many times the carry-over pass appended the shape
CarriedCount(sh) == Cardinality({n \in 1..Len(carried) : carried[n] = sh})

\* C1: in a run that reaches its commit (no cancellation, no error), over a
\* range with from <= to, every shape of the exported snapshot is either handed
\* to the chain on exactly one frame and not carried over, or carried over
\* exactly once, unchanged, into the committed collection and never handed to
\* the chain.
C1_EveryShapeAccountedOnce ==
    (completion.type = "normal" /\ frameFrom <= frameTo) =>
        /\ \A k \in 1..Len(exportedCollection.shapes) :
            LET sh == exportedCollection.shapes[k] IN
                \/ HandedCount(sh) = 1 /\ CarriedCount(sh) = 0
                \/ HandedCount(sh) = 0 /\ CarriedCount(sh) = 1
        /\ Len(store.shapes) >= Len(carried)
        /\ SubSeq(store.shapes, Len(store.shapes) - Len(carried) + 1, Len(store.shapes)) = carried

\* C1 witness: a completed run over two frames or more in which one shape was
\* handed to a non-empty chain and another was carried over.
C1_Witness ==
    /\ pc = "settled"
    /\ result.state = "resolved"
    /\ completion.type = "normal"
    /\ frameFrom < frameTo
    /\ chain # <<>>
    /\ \E n \in 1..Len(handedLog) : handedLog[n].shapes # <<>>
    /\ carried # <<>>

\* C2 as stated: a run in which cancelled() returned true at a checkpoint
\* settles resolved, having called neither clear nor import, the store as it
\* was before the run.
C2_CancelledRunReturnsNormally ==
    (pc = "settled" /\ cancelledAt # "none") =>
        /\ result.state = "resolved"
        /\ clearCalls = 0
        /\ importCalls = 0
        /\ store = InitialStore

\* C3 as stated: when the run has settled, the store holds either the complete
\* combined collection of the run or what it held before the run.
C3_StoreAllOrNothing ==
    pc = "settled" =>
        \/ store = InitialStore
        \/ completion.type = "normal" /\ store = Combined

\* C4 as stated: once the promise of runActions has settled, destroy has been
\* called exactly once on every action of the chain.
C4_DestroyOnceOnEveryAction ==
    result.state # "pending" => \A i \in 1..Len(chain) : destroyCalls[i] = 1

\* C5 as stated: when init, run, the frame-data provider or the filtered-state
\* fetch raised, clear and import were not called, destroy was called on every
\* action, and the caller receives that error.
C5_ErrorSkipsCommitAndPropagates ==
    (pc = "settled" /\ completion.type = "throw"
        /\ completion.error.src \in {"init", "run", "frames.get", "getAnnotations"}) =>
        /\ clearCalls = 0
        /\ importCalls = 0
        /\ \A i \in 1..Len(chain) : destroyCalls[i] = 1
        /\ result = [state |-> "rejected", error |-> completion.error]

\* C6 as stated: when the try block ended with an error E and a destroy raised
\* as well, the caller receives E.
C6_CleanupErrorDoesNotMask ==
    (pc = "settled" /\ completion.type = "throw"
        /\ \E i \in 1..Len(chain) : destroyState[i] = "failed") =>
        result.error = completion.error

(***************************************************************************)
(* Registry claims (checked under RegSpec).                                *)
(***************************************************************************)
\* a step that is a call of registerAction
IsRegisterStep == nCalls' # nCalls /\ lastCall'.op = "registerAction"

IsListStep == nCalls' # nCalls /\ lastCall'.op = "listActions"

IsCallerStep == nCalls' # nCalls /\ lastCall'.op = "callerMutation"

\* C7: registerAction with a name that is already registered (exact,
\* case-sensitive match) fails with ArgumentError and leaves the registry
\* unchanged, so the first action registered under the name stays the only one.
C7_DuplicateNameRejected ==
    [][(IsRegisterStep /\ Includes(MapNames(registeredActions), lastCall'.arg.name))
        => (lastCall'.result = "ArgumentError" /\ registeredActions' = registeredActions)]_vars

\* C7 witness: a second, different action with the name of a registered one
\* has just been refused.
C7_Witness ==
    /\ lastCall.op = "registerAction"
    /\ lastCall.result = "ArgumentError"
    /\ InstanceOfBase(lastCall.arg)
    /\ Len(registeredActions) >= 2
    /\ \E i \in 2..Len(registeredActions) :
        registeredActions[i].name = lastCall.arg.name /\ registeredActions[i] # lastCall.arg

\* the Action capability contract: an instance that provides every member
SatisfiesContract(action) == action.cls \in {"Plugin", "RemoveFilteredShapes"}

\* C8 as stated: every candidate that does not satisfy the Action capability
\* contract is refused with ArgumentError, the registry unchanged.
C8_Original ==
    [][(IsRegisterStep /\ ~SatisfiesContract(lastCall'.arg))
        => (lastCall'.result = "ArgumentError" /\ registeredActions' = registeredActions)]_vars

\* C8 amended: a candidate that is no BaseSingleFrameAction instance is refused
\* with ArgumentError; a bare base-class instance is refused with the plain
\* Error of its name accessor; both leave the registry unchanged.  A subclass
\* instance that provides a fresh name but no other member is registered.
C8_InvalidCandidate ==
    [][IsRegisterStep =>
        /\ ~InstanceOfBase(lastCall'.arg)
            => (lastCall'.result = "ArgumentError" /\ registeredActions' = registeredActions)
        /\ lastCall'.arg = BaseSingleFrameAction
            => (lastCall'.result = "Error" /\ registeredActions' = registeredActions)
        /\ (lastCall'.arg.cls = "NameOnly"
                /\ ~Includes(MapNames(registeredActions), lastCall'.arg.name))
            => (lastCall'.result = "ok"
                /\ registeredActions' = Append(registeredActions, lastCall'.arg))]_vars

\* C8 witness: a bare base-class instance has just been refused, with Error,
\* by a registry that already holds a plug-in.
C8_Witness ==
    /\ lastCall.op = "registerAction"
    /\ lastCall.arg = BaseSingleFrameAction
    /\ lastCall.result = "Error"
    /\ Len(registeredActions) >= 2

\* C9: no two actions of the registry have the same name.
C9_UniqueNames ==
    \A i, j \in 1..Len(registeredActions) :
        i # j => registeredActions[i].name # registeredActions[j].name

\* C9 witness: three actions are registered and a duplicate of one of them
\* has been offered.
C9_Witness ==
    /\ Len(registeredActions) = 3
    /\ lastCall.op = "registerAction"
    /\ lastCall.result = "ArgumentError"
    /\ Includes(MapNames(registeredActions), lastCall.arg.name)

\* C10: listActions returns a fresh array holding the registered actions in
\* registration order and leaves the registry alone; a caller that adds,
\* removes or reorders entries of a returned array changes neither the registry
\* nor what a later listActions returns.
C10_ListActionsCopies ==
    [][/\ IsListStep =>
            /\ lastCall'.ref # RegistryRef
            /\ lastCall'.ref \notin returnedRefs
            /\ heap'[lastCall'.ref] = regLog
            /\ registeredActions' = registeredActions
       /\ IsCallerStep => (registeredActions' = registeredActions /\ registeredActions' = regLog)
      ]_vars

\* C10 witness: a caller added an entry to the first list it got, and a later
\* listActions returned the registry, of two actions, without that entry.
C10_Witness ==
    /\ lastCall.op = "listActions"
    /\ lastCall.ref = 2
    /\ Includes(heap[1], Intruder)
    /\ Len(registeredActions) = 2
    /\ heap[2] = registeredActions
    /\ ~Includes(heap[2], Intruder)

\* a is a prefix of b
IsPrefix(a, b) == Len(a) <= Len(b) /\ SubSeq(b, 1, Len(a)) = a

\* C11: the registry only grows: the built-in 'Remove filtered shapes' action
\* is in it before and after every step, and what it held before a step is a
\* prefix of what it holds after (nothing is removed, replaced or reordered).
C11_RegistryGrowsOnly ==
    [][/\ Includes(registeredActions, RemoveFilteredShapes)
       /\ Includes(registeredActions', RemoveFilteredShapes)
       /\ IsPrefix(registeredActions, registeredActions')]_vars

\* C11 witness: two plug-ins were registered after the built-in action, which
\* is still the first entry, and callers have changed a list they were handed.
C11_Witness ==
    /\ Len(registeredActions) = 3
    /\ registeredActions[1] = RemoveFilteredShapes
    /\ lastCall.op = "callerMutation"
    /\ heap[1] # registeredActions


(***************************************************************************)
(* What a completed run commits (checked under Spec).                      *)
(***************************************************************************)
\* how many elements of the sequence equal x
Count(seq, x) == Cardinality({i \in 1..Len(seq) : seq[i] = x})

\* the run finished its commit
Committed == completion.type = "normal"

\* C12, as stated: after a completed run with an empty chain every shape of
\* the snapshot is in the committed collection, identical field for field.
C12_Original ==
    (chain = <<>> /\ Committed) =>
        /\ Len(store.shapes) = Len(exportedCollection.shapes)
        /\ \A i \in 1..Len(exportedCollection.shapes) :
                Count(store.shapes, exportedCollection.shapes[i]) = 1

\* C12, amended: after a completed run with an empty chain the committed
\* collection holds every shape of the snapshot exactly once and nothing
\* else; a shape that was handed to the chain (it matched the filters on a
\* processed frame) is committed without its field id and with every other
\* field as in the snapshot, any other shape is committed field for field.
C12_PassThroughStripsId ==
    (chain = <<>> /\ Committed) =>
        /\ Len(store.shapes) = Len(exportedCollection.shapes)
        /\ \A i \in 1..Len(exportedCollection.shapes) :
                LET sh == exportedCollection.shapes[i]
                IN  Count(store.shapes,
                          IF sh.clientID \in matchedLog THEN omit(sh, "id") ELSE sh) = 1

\* an empty chain committed a handed shape that had an id, and carried one over
C12_Witness ==
    /\ chain = <<>>
    /\ Committed
    /\ \E i \in 1..Len(exportedCollection.shapes) :
            /\ exportedCollection.shapes[i].clientID \in matchedLog
            /\ "id" \in DOMAIN exportedCollection.shapes[i]
    /\ carried # <<>>

\* C13: after a completed run whose chain is the built-in action alone, the
\* committed shapes are the shapes of the snapshot that did not match the
\* filters on a processed frame, field for field and in the snapshot's order;
\* the shapes that matched are on frames of [from, to] that are not deleted.
C13_BuiltinRemovesMatchedOnly ==
    (chain = <<RemoveFilteredShapes>> /\ Committed) =>
        /\ store.shapes = SelectSeq(exportedCollection.shapes,
                                    LAMBDA sh : sh.clientID \notin matchedLog)
        /\ \A i \in 1..Len(exportedCollection.shapes) :
                exportedCollection.shapes[i].clientID \in matchedLog =>
                    /\ exportedCollection.shapes[i].frame \in frameFrom..frameTo
                    /\ exportedCollection.shapes[i].frame \notin deletedFrames

\* the built-in action alone removed a shape and another shape survived
C13_Witness ==
    /\ chain = <<RemoveFilteredShapes>>
    /\ Committed
    /\ matchedLog # {}
    /\ store.shapes # <<>>
    /\ Len(store.shapes) < Len(exportedCollection.shapes)

(***************************************************************************)
(* The calls of onProgress (checked under TimedSpec).                      *)
(***************************************************************************)
\* the percentages of the calls do not decrease
NonDecreasing(calls) == \A i \in 1..(Len(calls) - 1) : calls[i][2] <= calls[i + 1][2]

\* the run has settled and the throttle keeps no call back
RunOver == pc = "settled" /\ throttlePending = <<>>

\* C14: the percentages passed to onProgress never decrease, and once the run
\* is over, on success, cancellation and error alike, onProgress has been
\* called and its last call reported 100.
C14_ProgressNonDecreasingEndsAt100 ==
    /\ NonDecreasing(delivered)
    /\ RunOver => (delivered # <<>> /\ delivered[Len(delivered)][2] = 100)

\* the same for the runs that entered the try block
C14_AfterEventOpened ==
    /\ NonDecreasing(delivered)
    /\ (RunOver /\ event # "none") =>
            (delivered # <<>> /\ delivered[Len(delivered)][2] = 100)

(***************************************************************************)
(* The parameters passed to init (checked under ParamSpec).                *)
(***************************************************************************)
\* init of the plug-in at position i was called with resolved parameters
InitCalledWithParameters(i) ==
    /\ initCalls[i] > 0
    /\ chain[i].cls = "Plugin"
    /\ i <= Len(actionParameters)

\* the caller's map at position i has the value v for the numeric parameter
Supplied(i, v) ==
    /\ "radius" \in DOMAIN actionParameters[i]
    /\ actionParameters[i].radius = v

\* C15, as stated: the numeric parameter declared with the default "5" and
\* supplied by the caller as the empty string is passed to init as NaN.
C15_Original ==
    \A i \in 1..Len(chain) :
        (/\ InitCalledWithParameters(i)
         /\ chain[i].parameters.radius.defaultValue = <<"5">>
         /\ Supplied(i, <<>>)) => initArgs[i].radius = NaN

\* C15, amended: the numeric parameter passed to init is the numeric coercion
\* of the caller's value when the caller's map has the name and of the
\* declared default otherwise; the coercion is that of unary +, so "5" and
\* " 5" are 5, "a" is NaN, and the empty (or blank) string is 0: with the
\* declared default "5" and the caller's value "" the value passed is 0.
C15_NumericCoercion ==
    \A i \in 1..Len(chain) :
        InitCalledWithParameters(i) =>
            /\ initArgs[i].radius =
                    ToNumber(IF "radius" \in DOMAIN actionParameters[i]
                             THEN actionParameters[i].radius
                             ELSE chain[i].parameters.radius.defaultValue)
            /\ Supplied(i, <<>>) => initArgs[i].radius = Num(0)
            /\ Supplied(i, <<" ">>) => initArgs[i].radius = Num(0)
            /\ Supplied(i, <<"5">>) => initArgs[i].radius = Num(5)
            /\ Supplied(i, <<" ", "5">>) => initArgs[i].radius = Num(5)
            /\ Supplied(i, <<"a">>) => initArgs[i].radius = NaN
            /\ ("radius" \notin DOMAIN actionParameters[i]
                    /\ chain[i].parameters.radius.defaultValue = <<"5">>)
                  => initArgs[i].radius = Num(5)
            /\ initArgs[i].mode =
                    Str(IF "mode" \in DOMAIN actionParameters[i]
                        THEN actionParameters[i].mode
                        ELSE chain[i].parameters.mode.defaultValue)
            /\ DOMAIN initArgs[i] = {"radius", "mode"}

\* init was called with the default "5" declared and "" supplied, and got 0
C15_Witness ==
    /\ chain # <<>>
    /\ InitCalledWithParameters(1)
    /\ chain[1].parameters.radius.defaultValue = <<"5">>
    /\ Supplied(1, <<>>)
    /\ initArgs[1].radius = Num(0)

(***************************************************************************)
(* The audit event (checked under Spec).                                   *)
(***************************************************************************)
\* something besides the call of logger.log has happened in the run
SomeStepTaken ==
    \/ progressLog # <<>>
    \/ checkLog # <<>>
    \/ runLog # <<>>
    \/ handedLog # <<>>
    \/ clearCalls > 0
    \/ importCalls > 0
    \/ \E i \in 1..Len(chain) : initCalls[i] > 0 \/ destroyCalls[i] > 0

\* C16: the audit event is opened before any other step of the run, it is
\* closed if and only if import finished, and on a settled run that was
\* cancelled or that raised an error it is not closed.
C16_EventClosedIffCommitted ==
    /\ SomeStepTaken => event # "none"
    /\ event = "closed" <=> (importCalls = 1 /\ Committed)
    /\ (pc = "settled" /\ (cancelledAt # "none" \/ result.state = "rejected")) =>
            event # "closed"

\* the same for the runs whose try block was cancelled or raised
C16_TryBlockOutcome ==
    /\ SomeStepTaken => event # "none"
    /\ event = "closed" <=> (importCalls = 1 /\ Committed)
    /\ (cancelledAt # "none" \/ completion.type = "throw") => event # "closed"

(***************************************************************************)
(* The cancellation checkpoints (checked under Spec).                      *)
(***************************************************************************)
\* C17: when the cancellation predicate first becomes true after the check
\* that precedes the carry-over pass and before the call of clear, the run
\* calls neither clear nor import.
C17_LateCancelStillNoCommit ==
    cancelFlag = "carryOver" => (clearCalls = 0 /\ importCalls = 0)

\* what the only check of the commit stage gives: cancelled() is called once,
\* before the carry-over pass, and when it returned true nothing was carried
\* over, cleared or imported
C17_CancelAtCommitCheck ==
    /\ Count(checkLog, "commit") <= 1
    /\ (carried # <<>> \/ clearCalls > 0) =>
            (Count(checkLog, "commit") = 1 /\ checkLog[Len(checkLog)] = "commit")
    /\ cancelledAt = "commit" =>
            (carried = <<>> /\ clearCalls = 0 /\ importCalls = 0 /\ store = InitialStore)

\* C18: when the cancellation predicate became true while the actions' init
\* calls were in progress, run is invoked on no action on any frame.
C18_CancelDuringInitSkipsRun ==
    cancelFlag = "init" => runLog = <<>>

\* what the checkpoints around init give: a cancellation that arrived before
\* the check of line 195 prevents every init and every run; one that arrived
\* during init is noticed after the chain has run on the first processed
\* frame, and nothing is committed
C18_CancelAroundInit ==
    /\ cancelFlag = "beforeInit" =>
            (runLog = <<>> /\ \A i \in 1..Len(chain) : initCalls[i] = 0)
    /\ cancelFlag = "init" =>
            /\ \A m, n \in 1..Len(runLog) : runLog[m].frame = runLog[n].frame
            /\ clearCalls = 0
            /\ importCalls = 0

(***************************************************************************)
(* The percentage of the running message (checked under Spec).             *)
(***************************************************************************)
\* the calls of wrappedOnProgress made after the chain finished a frame; the
\* n-th is made for the n-th frame handed to the chain
RunningCalls == SelectSeq(progressLog, LAMBDA call : call[1] = "Actions are running")

\* C19: the percentage reported after the chain has finished the k-th frame
\* of the range (k = frame - from + 1) is the ceiling of 100 * k / N, where
\* N = to - from + 1.
C19_PercentOfFramesCompleted ==
    \A n \in 1..Len(RunningCalls) :
        RunningCalls[n][2] = CeilDiv(100 * (handedLog[n].frame - frameFrom + 1),
                                     frameTo - frameFrom + 1)

(***************************************************************************)
(* Tracks and tags (checked under Spec).                                   *)
(***************************************************************************)
\* C20: the tracks and the tags of the committed collection are the tracks
\* and the tags of the snapshot, which are those the store held before the
\* run, whatever the chain returned.
C20_TracksAndTagsPassThrough ==
    Committed =>
        /\ store.tracks = exportedCollection.tracks
        /\ store.tags = exportedCollection.tags
        /\ exportedCollection.tracks = InitialStore.tracks
        /\ exportedCollection.tags = InitialStore.tags

\* a plug-in changed the shapes of a committed collection with tracks and tags
C20_Witness ==
    /\ Committed
    /\ \E i \in 1..Len(chain) : chain[i] = Plugin
    /\ runLog # <<>>
    /\ store.shapes # exportedCollection.shapes
    /\ store.tracks # <<>>
    /\ store.tags # <<>>

(***************************************************************************)
(* Ordering of init, the frames and destroy (checked under Spec).          *)
(***************************************************************************)
\* the frame loop has been entered, a frame was fetched or run was invoked
IterationStarted ==
    \/ pc \in {"frameGet", "getAnnotations", "run"}
    \/ deletedFrames # {}
    \/ handedLog # <<>>
    \/ runLog # <<>>
    \/ completion.error.src \in {"frames.get", "getAnnotations", "run"}

\* C21: no frame is fetched and no run is invoked before the init call of
\* every action of the chain has completed successfully, in whatever order
\* the init calls settle.
C21_InitCompleteBeforeFrames ==
    IterationStarted =>
        \A i \in 1..Len(chain) : initCalls[i] = 1 /\ initState[i] = "done"

\* a chain of two plug-ins has run on a frame
C21_Witness ==
    /\ Len(chain) = 2
    /\ chain[1] = Plugin
    /\ chain[2] = Plugin
    /\ runLog # <<>>

\* the frames of [from, to] the loop has visited: those before the loop variable
Visited == {f \in frameFrom..frameTo : f < frame}

\* the chain was run completely on frame f
ChainRanOn(f) ==
    \A i \in 1..Len(chain) :
        \E m \in 1..Len(runLog) : runLog[m].frame = f /\ runLog[m].idx = i

\* C22: frames are handed to the chain in strictly ascending order within
\* [from, to]; on a frame the run calls are made in chain order, the first
\* with the frame-local collection and each later one with the output of the
\* one before; clear and import are called only after every frame of the
\* range was visited (skipped as deleted, or run through the whole chain).
C22_FrameAndChainOrder ==
    /\ \A n \in 1..Len(handedLog) :
            /\ handedLog[n].frame \in frameFrom..frameTo
            /\ n > 1 => handedLog[n - 1].frame < handedLog[n].frame
            /\ \A k \in 1..Len(handedLog[n].shapes) :
                    handedLog[n].shapes[k].frame = handedLog[n].frame
    /\ \A m \in 1..Len(runLog) :
            IF runLog[m].idx = 1
            THEN /\ m > 1 => (runLog[m - 1].frame < runLog[m].frame
                                /\ runLog[m - 1].idx = Len(chain))
                 /\ \E n \in 1..Len(handedLog) :
                        /\ handedLog[n].frame = runLog[m].frame
                        /\ handedLog[n].shapes = runLog[m].input
            ELSE /\ m > 1
                 /\ runLog[m - 1].frame = runLog[m].frame
                 /\ runLog[m - 1].idx + 1 = runLog[m].idx
                 /\ runLog[m].input = RunOutput(chain[runLog[m - 1].idx],
                                                runLog[m - 1].input, runLog[m].frame)
    /\ (clearCalls > 0 \/ importCalls > 0) =>
            /\ Visited = frameFrom..frameTo
            /\ \A f \in frameFrom..frameTo : f \in deletedFrames \/ ChainRanOn(f)

\* a chain of two actions, the first a plug-in, ran on two frames and the
\* result was committed
C22_Witness ==
    /\ Committed
    /\ Len(chain) = 2
    /\ chain[1] = Plugin
    /\ Len(handedLog) >= 2
    /\ Len(runLog) >= 4

(***************************************************************************)
(* Deleted frames and identifiers (checked under Spec).                    *)
(***************************************************************************)
\* C23: for a frame flagged as deleted no filtered states are fetched and no
\* run is invoked, the clientIDs of its shapes are never put into
\* modifiedCollectionIDs, and a completed run commits every shape of the
\* snapshot on such a frame exactly once and unchanged.
C23_DeletedFramesUntouched ==
    /\ (pc \in {"getAnnotations", "run"}
            \/ completion.error.src \in {"getAnnotations", "run"}) =>
                frame \notin deletedFrames
    /\ \A f \in deletedFrames :
            /\ \A n \in 1..Len(handedLog) : handedLog[n].frame # f
            /\ \A m \in 1..Len(runLog) : runLog[m].frame # f
            /\ \A i \in 1..Len(exportedCollection.shapes) :
                    exportedCollection.shapes[i].frame = f =>
                        /\ ~Includes(modifiedCollectionIDs,
                                     exportedCollection.shapes[i].clientID)
                        /\ exportedCollection.shapes[i].clientID \notin matchedLog
                        /\ Committed =>
                                Count(store.shapes, exportedCollection.shapes[i]) = 1

\* a run with a non-empty chain skipped the deleted frame 1, which holds two
\* shapes, and committed
C23_Witness ==
    /\ Committed
    /\ chain # <<>>
    /\ 1 \in deletedFrames
    /\ handedLog # <<>>

\* the committed shapes that came from the chain: all but the carried ones,
\* which are appended last
FromChain == SubSeq(store.shapes, 1, Len(store.shapes) - Len(carried))

\* the committed shapes that were carried over
CarriedOver == SubSeq(store.shapes, Len(store.shapes) - Len(carried) + 1, Len(store.shapes))

\* C24, as stated: in the committed collection no shape that came from the
\* chain has a clientID, and every carried-over shape has one.
C24_Original ==
    Committed =>
        /\ \A k \in 1..Len(FromChain) : "clientID" \notin DOMAIN FromChain[k]
        /\ \A k \in 1..Len(CarriedOver) : "clientID" \in DOMAIN CarriedOver[k]

\* C24, amended: in the committed collection no shape that came from the
\* chain has the field id, while a clientID the chain returned is kept (it is
\* that of a shape handed to the chain); the carried-over shapes are shapes
\* of the snapshot with every field, id and clientID included.
C24_ChainResultsHaveNoId ==
    Committed =>
        /\ \A k \in 1..Len(FromChain) : "id" \notin DOMAIN FromChain[k]
        /\ CarriedOver = carried
        /\ \A k \in 1..Len(CarriedOver) :
                /\ "clientID" \in DOMAIN CarriedOver[k]
                /\ Count(exportedCollection.shapes, CarriedOver[k]) = 1
        /\ \A k \in 1..Len(FromChain) :
                "clientID" \in DOMAIN FromChain[k] =>
                    FromChain[k].clientID \in matchedLog

\* a plug-in's results were committed, one of them with a clientID and without
\* id, next to a carried-over shape that has its id
C24_Witness ==
    /\ Committed
    /\ \E i \in 1..Len(chain) : chain[i] = Plugin
    /\ \E k \in 1..Len(FromChain) :
            "clientID" \in DOMAIN FromChain[k] /\ "id" \notin DOMAIN FromChain[k]
    /\ \E k \in 1..Len(FromChain) : "clientID" \notin DOMAIN FromChain[k]
    /\ \E k \in 1..Len(CarriedOver) : "id" \in DOMAIN CarriedOver[k]

(***************************************************************************)
(* The commit and the other clients of the store (checked under            *)
(* SharedSpec).                                                            *)
(***************************************************************************)
\* the positions of the run between the end of its clear and the end of its import
BetweenClearAndImport == {"actionsClear", "import"}

\* C25: no store operation of another client takes effect between the run's
\* clear and its import, and the store right after the run's import holds
\* exactly the run's combined collection.
C25_CommitIsCriticalSection ==
    /\ \A n \in 1..Len(otherOps) : otherOps[n].at \notin BetweenClearAndImport
    /\ (Committed /\ \A n \in 1..Len(otherOps) :
                        otherOps[n].at \notin {"finally", "awaitDestroy"}) =>
            store = Combined

\* what import gives on its own: replacing the store's content, it leaves the
\* run's combined collection whatever happened to the store before
C25_ImportReplaces ==
    (Committed /\ \A n \in 1..Len(otherOps) :
                    otherOps[n].at \notin {"finally", "awaitDestroy"}) =>
        store = Combined

(***************************************************************************)
(* destroy after init (checked under Spec).                                *)
(***************************************************************************)
\* C26: destroy is invoked on an action only after the init call of that
\* action was invoked and has completed.
C26_DestroyOnlyAfterInit ==
    \A i \in 1..Len(chain) :
        destroyCalls[i] > 0 => (initCalls[i] = 1 /\ initState[i] \in {"done", "failed"})

\* what orders destroy: it is invoked once the try block has ended, however
\* it ended, and on every action of the chain together
C26_DestroyAfterTryBlock ==
    \A i \in 1..Len(chain) :
        destroyCalls[i] > 0 =>
            /\ completion.type # "none"
            /\ \A j \in 1..Len(chain) : destroyCalls[j] = 1

====
